---- MODULE Spec2Model ----
(***************************************************************************)
(* Edge TTS integration for Home Assistant: the config / options flow      *)
(* (config_flow.py), the config-entry lifecycle (__init__.py) and the      *)
(* speech entity (tts.py).                                                 *)
(*                                                                         *)
(* Text that the code inspects character by character (a locale, a        *)
(* language, a rate, volume or pitch) is a sequence of one-character       *)
(* strings; text that it only stores, compares and hands on (a voice short *)
(* name, an entity id, an option key) is a string, and None is the string  *)
(* "None" there.  Bytes are a sequence of integers 0..255, a dict is a     *)
(* function whose DOMAIN is the set of its keys.                           *)
(***************************************************************************)
EXTENDS Integers, Sequences, FiniteSets, TLC

None == "None"

(***************************************************************************)
(* Bounds of the model.                                                    *)
(***************************************************************************)
\* longest ID3v2 tag body / audio payload following the 10-byte header
MaxBody == 4

\* longest voice catalog
MaxCatalog == 3

\* options-form submissions in one behaviour
MaxEdits == 1

\* longest stream of chunks of a synthesis session
MaxChunks == 2

\* longest list of media players of an announce request
MaxTargets == 2

\* temporary files created in one behaviour
MaxFiles == 1

\* unloads of the entry by the user in one behaviour
MaxUnloads == 1

VARIABLES
    \* _strip_id3v2 applied to one buffer
    data, stripped, strip_pc,
    \* _voice_for_language and the voice choice of one request
    catalog, lang, req_options, default_voice, picked, used_voice, voice_pc,
    \* the config entry: whether it exists, its options, title and state
    entry_exists, entry_options, entry_title, entry_state,
    \* entry.update_listeners (their number) and the update_listener tasks
    \* the host has created and not yet run
    update_listeners, reload_tasks,
    \* the EdgeTTSEntity of the loaded entry (<<>> when there is none)
    entity,
    \* the config / options flow: a submission being handled and the last result
    flow_pc, flow_kind, user_input, flow_result,
    \* history: the number of options-form submissions and of unloads by
    \* the user
    edits, unloads,
    \* a request to the entity: where it is, the call (its arguments and what
    \* the services it uses do) and what it did
    req_pc, call, outcome,
    \* the temporary files on disk, the cleanup callbacks scheduled with
    \* async_call_later, the number of temporary files created so far
    files, timers, next_tmp

stripVars == <<data, stripped, strip_pc>>
voiceVars == <<catalog, lang, req_options, default_voice, picked, used_voice, voice_pc>>
entryVars == <<entry_exists, entry_options, entry_title, entry_state,
               update_listeners, reload_tasks, entity, edits, unloads>>
flowVars == <<flow_pc, flow_kind, user_input, flow_result>>
reqVars == <<req_pc, call, outcome>>
fileVars == <<files, timers, next_tmp>>
vars == <<data, stripped, strip_pc,
          catalog, lang, req_options, default_voice, picked, used_voice, voice_pc,
          entry_exists, entry_options, entry_title, entry_state,
          update_listeners, reload_tasks, entity, edits, unloads,
          flow_pc, flow_kind, user_input, flow_result,
          req_pc, call, outcome, files, timers, next_tmp>>

(***************************************************************************)
(* Python helpers                                                          *)
(***************************************************************************)
\* dict.get(key, default)
DictGet(d, key, default) == IF key \in DOMAIN d THEN d[key] ELSE default

\* bool(x) of None or a str held as a string
Truthy(x) == x # None /\ x # ""

\* x or y
Or(x, y) == IF Truthy(x) THEN x ELSE y

UpperCase == <<"A", "B", "C", "D", "E", "F", "G", "H", "I", "J", "K", "L", "M",
               "N", "O", "P", "Q", "R", "S", "T", "U", "V", "W", "X", "Y", "Z">>
LowerCase == <<"a", "b", "c", "d", "e", "f", "g", "h", "i", "j", "k", "l", "m",
               "n", "o", "p", "q", "r", "s", "t", "u", "v", "w", "x", "y", "z">>

LowerChar(c) ==
    IF \E i \in 1 .. 26 : UpperCase[i] = c
    THEN LowerCase[CHOOSE i \in 1 .. 26 : UpperCase[i] = c]
    ELSE c

\* str.lower()
StrLower(s) == [i \in 1 .. Len(s) |-> LowerChar(s[i])]

\* str.split(sep)[0]
RECURSIVE SplitFirst(_, _)
SplitFirst(s, sep) ==
    IF s = <<>> \/ Head(s) = sep THEN <<>>
    ELSE <<Head(s)>> \o SplitFirst(Tail(s), sep)

(***************************************************************************)
(* The value of the variables a specification does not use.                *)
(***************************************************************************)
IdleStrip == data = <<>> /\ stripped = <<>> /\ strip_pc = "idle"
IdleVoice ==
    /\ catalog = <<>> /\ lang = <<>> /\ req_options = <<>> /\ default_voice = None
    /\ picked = None /\ used_voice = None /\ voice_pc = "idle"
IdleEntry ==
    /\ entry_exists = FALSE /\ entry_options = <<>> /\ entry_title = ""
    /\ entry_state = "not_loaded" /\ update_listeners = 0 /\ reload_tasks = 0
    /\ entity = <<>> /\ edits = 0 /\ unloads = 0
IdleFlow ==
    /\ flow_pc = "idle" /\ flow_kind = "" /\ user_input = <<>> /\ flow_result = <<>>
IdleRequest ==
    /\ req_pc = "idle" /\ call = <<>> /\ outcome = <<>>
    /\ files = {} /\ timers = {} /\ next_tmp = 0

(***************************************************************************)
(* tts.py: _strip_id3v2                                                    *)
(***************************************************************************)
\* b"ID3"
ID3 == <<73, 68, 51>>

\* data.startswith(prefix)
StartsWith(s, prefix) ==
    /\ Len(s) >= Len(prefix)
    /\ SubSeq(s, 1, Len(prefix)) = prefix

\* data[i:j] with 0-based, end-exclusive Python slice indices (0 <= i)
Slice(s, i, j) ==
    LET hi == IF j > Len(s) THEN Len(s) ELSE j
    IN  IF i >= hi THEN <<>> ELSE SubSeq(s, i + 1, hi)

\* for b in size_bytes: size = (size << 7) | (b & 0x7F)
\* (size << 7) has its low 7 bits clear and (b & 0x7F) < 128, so the bitwise
\* or is the sum.
RECURSIVE SynchsafeLoop(_, _)
SynchsafeLoop(size_bytes, size) ==
    IF size_bytes = <<>> THEN size
    ELSE SynchsafeLoop(Tail(size_bytes), size * 128 + (Head(size_bytes) % 128))

\* a mutant of _strip_id3v2: the bound check is "total > len(data)"
strip_id3v2_off_by_one(d) ==
    IF Len(d) < 10 \/ ~StartsWith(d, ID3) THEN d
    ELSE LET total == 10 + SynchsafeLoop(Slice(d, 6, 10), 0)
         IN  IF total > Len(d) THEN d ELSE Slice(d, total, Len(d))

_strip_id3v2(d) ==
    IF Len(d) < 10 \/ ~StartsWith(d, ID3) THEN d
    ELSE LET size_bytes == Slice(d, 6, 10)
             size == SynchsafeLoop(size_bytes, 0)
             total == 10 + size
         IN  IF total >= Len(d) THEN d ELSE Slice(d, total, Len(d))

(***************************************************************************)
(* Buffers handed to _strip_id3v2: a 3-byte marker, version and flag       *)
(* bytes, four size bytes, a body of up to MaxBody + 2 bytes, cut at any   *)
(* length.                                                                 *)
(***************************************************************************)
Markers == {ID3, <<73, 68, 52>>, <<105, 100, 51>>}
SizePrefixes == {<<0, 0, 0>>, <<128, 0, 128>>, <<0, 0, 1>>, <<0, 128, 0>>}
LastSizeBytes == (0 .. MaxBody) \cup {128, 129, 130, 255}
\* body bytes are distinct, so that a suffix shows where it starts
Body == [i \in 1 .. (MaxBody + 2) |-> 200 + i]
FullBuffers ==
    { m \o <<3, 0, 0>> \o sp \o <<b>> \o Body :
        m \in Markers, sp \in SizePrefixes, b \in LastSizeBytes }
StripInputs == { SubSeq(f, 1, k) : f \in FullBuffers, k \in 0 .. (MaxBody + 12) }

(***************************************************************************)
(* tts.py: EdgeTTSEntity._voice_for_language and the voice of a request    *)
(***************************************************************************)
\* locale.startswith(language) or locale.split("-")[0] == language
LocaleMatches(voice, language) ==
    LET locale == StrLower(DictGet(voice, "Locale", <<>>))
    IN  StartsWith(locale, language) \/ SplitFirst(locale, "-") = language

\* for voice in self._voices: ... return voice.get("ShortName")
RECURSIVE VoiceLoop(_, _)
VoiceLoop(voices, language) ==
    IF voices = <<>> THEN None
    ELSE IF LocaleMatches(Head(voices), language)
         THEN DictGet(Head(voices), "ShortName", None)
         ELSE VoiceLoop(Tail(voices), language)

\* a mutant of _voice_for_language: the locale is compared as written
RECURSIVE VoiceLoopCaseSensitive(_, _)
VoiceLoopCaseSensitive(voices, language) ==
    IF voices = <<>> THEN None
    ELSE IF \/ StartsWith(DictGet(Head(voices), "Locale", <<>>), language)
            \/ SplitFirst(DictGet(Head(voices), "Locale", <<>>), "-") = language
         THEN DictGet(Head(voices), "ShortName", None)
         ELSE VoiceLoopCaseSensitive(Tail(voices), language)

voice_for_language_case_sensitive(voices, language) ==
    IF voices = <<>> THEN None
    ELSE VoiceLoopCaseSensitive(voices, StrLower(language))

\* a mutant of _voice_for_language: the last matching voice wins
RECURSIVE VoiceLoopLast(_, _, _)
VoiceLoopLast(voices, language, found) ==
    IF voices = <<>> THEN found
    ELSE VoiceLoopLast(Tail(voices), language,
                       IF LocaleMatches(Head(voices), language)
                       THEN DictGet(Head(voices), "ShortName", None) ELSE found)

voice_for_language_last(voices, language) ==
    IF voices = <<>> THEN None
    ELSE VoiceLoopLast(voices, StrLower(language), None)

_voice_for_language(voices, language) ==
    IF voices = <<>> THEN None
    ELSE VoiceLoop(voices, StrLower(language))

\* async_get_tts_audio, the voice of the request:
\*   voice = options.get(ATTR_VOICE) or self._default_voice
\*   if language and ATTR_VOICE not in options:
\*       voice = self._voice_for_language(language) or voice
RequestVoice(options, language, dflt, voices) ==
    LET voice == Or(DictGet(options, "voice", None), dflt)
    IN  IF language # <<>> /\ "voice" \notin DOMAIN options
        THEN Or(_voice_for_language(voices, language), voice)
        ELSE voice

(***************************************************************************)
(* Catalogs and languages for the voice choice.  The catalog entries are   *)
(* those edge_tts.list_voices() returns (ShortName, Locale), and one entry *)
(* without a Locale, which the code reads with .get("Locale", "").         *)
(***************************************************************************)
Str_en == <<"e", "n">>
Str_enUS == <<"e", "n", "-", "U", "S">>
Str_enGB == <<"e", "n", "-", "G", "B">>
Str_frFR == <<"f", "r", "-", "F", "R">>
Str_filPH == <<"f", "i", "l", "-", "P", "H">>

CatalogVoices ==
    { [ShortName |-> "en-US-EmmaNeural", Locale |-> Str_enUS],
      [ShortName |-> "en-GB-SoniaNeural", Locale |-> Str_enGB],
      [ShortName |-> "fr-FR-HenriNeural", Locale |-> Str_frFR],
      [ShortName |-> "fil-PH-AngeloNeural", Locale |-> Str_filPH],
      [ShortName |-> "zz-NoLocaleNeural"] }

Catalogs == UNION { [1 .. n -> CatalogVoices] : n \in 0 .. MaxCatalog }

Languages ==
    { <<>>, Str_en, <<"E", "N">>, Str_enUS, <<"e", "n", "-", "g", "b">>,
      <<"F", "R", "-", "f", "r">>, <<"f", "i">>, <<"f", "i", "l">>, <<"d", "e">>,
      <<"e", "n", "-">>, <<"e", "n", "-", "U", "S", "A">>, <<"U", "S">> }

DEFAULT_VOICE == "en-US-EmmaMultilingualNeural"

\* the voice option of a request: absent, empty or a voice name
VoiceOptions == { <<>>, [voice |-> ""], [voice |-> "de-DE-KatjaNeural"] }

InitVoice ==
    /\ catalog \in Catalogs
    /\ lang \in Languages
    /\ req_options \in VoiceOptions
    /\ default_voice \in {DEFAULT_VOICE, "fr-FR-HenriNeural"}
    /\ picked = None
    /\ used_voice = None
    /\ voice_pc = "call"
    /\ IdleStrip /\ IdleEntry /\ IdleFlow /\ IdleRequest

\* self._voice_for_language(language), and the voice the request uses
PickVoice ==
    /\ voice_pc = "call"
    /\ picked' = _voice_for_language(catalog, lang)
    /\ used_voice' = RequestVoice(req_options, lang, default_voice, catalog)
    /\ voice_pc' = "done"
    /\ UNCHANGED <<catalog, lang, req_options, default_voice, stripVars,
                   entryVars, flowVars, reqVars, fileVars>>

NextVoice == PickVoice

SpecVoice == InitVoice /\ [][NextVoice]_vars

\* the comparison of the claim, spelled out on characters
SameLetter(a, b) == LowerChar(a) = LowerChar(b)
LocaleOf(v) == IF "Locale" \in DOMAIN v THEN v.Locale ELSE <<>>
StartsWithLanguage(v, language) ==
    /\ Len(LocaleOf(v)) >= Len(language)
    /\ \A k \in 1 .. Len(language) : SameLetter(LocaleOf(v)[k], language[k])
PrimarySubtagIs(v, language) ==
    /\ Len(LocaleOf(v)) >= Len(language)
    /\ \A k \in 1 .. Len(language) :
          SameLetter(LocaleOf(v)[k], language[k]) /\ LocaleOf(v)[k] # "-"
    /\ Len(LocaleOf(v)) > Len(language) => LocaleOf(v)[Len(language) + 1] = "-"
ClaimMatch(v, language) == StartsWithLanguage(v, language) \/ PrimarySubtagIs(v, language)
FirstMatch(voices, language) ==
    { i \in 1 .. Len(voices) :
        /\ ClaimMatch(voices[i], language)
        /\ \A j \in 1 .. (i - 1) : ~ClaimMatch(voices[j], language) }

\* C8: the voice picked for a language is the short name of the first
\* catalog entry, in catalog order, whose locale starts with the language
\* or whose primary subtag is the language, letters compared without case;
\* it is None when the catalog is empty or no entry matches, and a request
\* that names no voice then uses the configured default voice.
C8_FirstMatchInCatalogOrder ==
    voice_pc = "done" =>
        /\ \A i \in FirstMatch(catalog, lang) : picked = catalog[i].ShortName
        /\ FirstMatch(catalog, lang) = {} => picked = None
        /\ (FirstMatch(catalog, lang) = {} /\ "voice" \notin DOMAIN req_options)
              => used_voice = default_voice
        /\ (FirstMatch(catalog, lang) # {} /\ lang # <<>>
                /\ "voice" \notin DOMAIN req_options)
              => used_voice = picked

\* a second entry of the catalog is the first match, for a language written
\* in another case than the locale
C8_Witness ==
    /\ voice_pc = "done"
    /\ FirstMatch(catalog, lang) = {2}
    /\ Len(catalog) = 3
    /\ ClaimMatch(catalog[3], lang)
    /\ lang = <<"E", "N">>
    /\ picked = catalog[2].ShortName
    /\ used_voice = picked

InitStrip ==
    /\ data \in StripInputs
    /\ stripped = <<>>
    /\ strip_pc = "call"
    /\ IdleVoice /\ IdleEntry /\ IdleFlow /\ IdleRequest

Strip ==
    /\ strip_pc = "call"
    /\ stripped' = _strip_id3v2(data)
    /\ strip_pc' = "done"
    /\ UNCHANGED <<data, voiceVars, entryVars, flowVars, reqVars, fileVars>>

NextStrip == Strip

SpecStrip == InitStrip /\ [][NextStrip]_vars

\* the synchsafe size read from the header, byte by byte
SynchsafeSize(d) ==
    (d[7] % 128) * 2097152 + (d[8] % 128) * 16384 + (d[9] % 128) * 128 + (d[10] % 128)

HasTag(d) ==
    /\ Len(d) >= 10
    /\ d[1] = 73 /\ d[2] = 68 /\ d[3] = 51
    /\ 10 + SynchsafeSize(d) < Len(d)

IsSuffix(s, t) == \E k \in 0 .. Len(t) : s = [i \in 1 .. (Len(t) - k) |-> t[i + k]]

\* C7: a buffer that starts with 'ID3', has at least 10 bytes and whose
\* total = 10 + synchsafe size is smaller than its length loses exactly its
\* first total bytes; every other buffer is returned unchanged; the result
\* is a suffix of the input and is not empty for a non-empty input.
C7_StripId3v2 ==
    strip_pc = "done" =>
        /\ HasTag(data) =>
              /\ Len(stripped) = Len(data) - (10 + SynchsafeSize(data))
              /\ \A i \in 1 .. Len(stripped) :
                    stripped[i] = data[i + 10 + SynchsafeSize(data)]
        /\ ~HasTag(data) => stripped = data
        /\ IsSuffix(stripped, data)
        /\ data # <<>> => stripped # <<>>

\* a tag of a size above 0 was stripped, and the bytes after it are left
C7_Witness ==
    /\ strip_pc = "done"
    /\ HasTag(data)
    /\ SynchsafeSize(data) > 0
    /\ stripped # data
    /\ stripped[1] = 201 + SynchsafeSize(data)

(***************************************************************************)
(* const.py                                                                *)
(***************************************************************************)
CONF_VOICE == "voice"
CONF_RATE == "rate"
CONF_VOLUME == "volume"
CONF_PITCH == "pitch"
CONF_OUTPUT_FORMAT == "output_format"
DEFAULT_RATE == <<"+", "0", "%">>
DEFAULT_VOLUME == <<"+", "0", "%">>
DEFAULT_PITCH == <<"+", "0", "H", "z">>
DEFAULT_OUTPUT_FORMAT == "mp3"

(***************************************************************************)
(* config_flow.py: RATE_RE, PITCH_RE and _validate_options                 *)
(***************************************************************************)
Digits == {"0", "1", "2", "3", "4", "5", "6", "7", "8", "9"}

\* [+-]? : one sign is consumed when there is one
SkipSign(s) == IF s # <<>> /\ Head(s) \in {"+", "-"} THEN Tail(s) ELSE s

\* \d+ : the digits are consumed as far as they go
RECURSIVE SkipDigits(_)
SkipDigits(s) == IF s # <<>> /\ Head(s) \in Digits THEN SkipDigits(Tail(s)) ELSE s

\* re.compile(r"^[+-]?\d+<unit>$").match(s): the unit follows at least one
\* digit, and $ matches at the end of the text or before a line break that
\* ends it
SignedNumberMatch(s, unit) ==
    LET afterSign == SkipSign(s)
        afterDigits == SkipDigits(afterSign)
    IN  /\ Len(afterDigits) < Len(afterSign)
        /\ afterDigits \in {unit, unit \o <<"\n">>}

RATE_RE(s) == SignedNumberMatch(s, <<"%">>)
PITCH_RE(s) == SignedNumberMatch(s, <<"H", "z">>)

\* the dict built from (key, value) pairs
DictOf(pairs) == [k \in {pr[1] : pr \in pairs} |-> (CHOOSE pr \in pairs : pr[1] = k)[2]]

\* a mutant of _validate_options: the volume is checked only when the rate is bad
validate_options_volume_after_rate(input) ==
    LET rate == DictGet(input, CONF_RATE, DEFAULT_RATE)
        volume == DictGet(input, CONF_VOLUME, DEFAULT_VOLUME)
        pitch == DictGet(input, CONF_PITCH, DEFAULT_PITCH)
        badRate == rate # <<>> /\ ~RATE_RE(rate)
    IN  DictOf(  (IF badRate THEN {<<CONF_RATE, "invalid_rate">>} ELSE {})
            \cup (IF badRate /\ volume # <<>> /\ ~RATE_RE(volume)
                  THEN {<<CONF_VOLUME, "invalid_volume">>} ELSE {})
            \cup (IF pitch # <<>> /\ ~PITCH_RE(pitch)
                  THEN {<<CONF_PITCH, "invalid_pitch">>} ELSE {}))

_validate_options(input) ==
    LET rate == DictGet(input, CONF_RATE, DEFAULT_RATE)
        volume == DictGet(input, CONF_VOLUME, DEFAULT_VOLUME)
        pitch == DictGet(input, CONF_PITCH, DEFAULT_PITCH)
    IN  DictOf(  (IF rate # <<>> /\ ~RATE_RE(rate)
                  THEN {<<CONF_RATE, "invalid_rate">>} ELSE {})
            \cup (IF volume # <<>> /\ ~RATE_RE(volume)
                  THEN {<<CONF_VOLUME, "invalid_volume">>} ELSE {})
            \cup (IF pitch # <<>> /\ ~PITCH_RE(pitch)
                  THEN {<<CONF_PITCH, "invalid_pitch">>} ELSE {}))

\* async_step_user(None) / async_step_init(None): no submission
NoInput == <<>>

\* USER_STEP_SCHEMA, and the schema of the options form: what a submission
\* holds once the host has applied the schema (every key, a str each, the
\* output format one of mp3 and wav)
FormInputs(voices, rates, volumes, pitches) ==
    [voice : voices, rate : rates, volume : volumes, pitch : pitches,
     output_format : {"mp3", "wav"}]

(***************************************************************************)
(* tts.py: EdgeTTSEntity.__init__ and _entry_value.  The field            *)
(* read_options of the entity records the options that __init__ read.      *)
(***************************************************************************)
\* entry.data, which async_step_user creates empty and nothing changes
EntryData == <<>>

\* a mutant of _entry_value: the stored options are not looked at
entry_value_default_only(options, key, default) == default

\* str() of a str is the str itself
_entry_value(options, key, default) ==
    IF key \in DOMAIN options THEN options[key]
    ELSE IF key \in DOMAIN EntryData THEN EntryData[key]
    ELSE default

EntityInit(options, voices) ==
    [ read_options |-> options,
      _voices |-> voices,
      _default_voice |-> _entry_value(options, CONF_VOICE, DEFAULT_VOICE),
      _default_rate |-> _entry_value(options, CONF_RATE, DEFAULT_RATE),
      _default_volume |-> _entry_value(options, CONF_VOLUME, DEFAULT_VOLUME),
      _default_pitch |-> _entry_value(options, CONF_PITCH, DEFAULT_PITCH),
      _default_output_format |->
          _entry_value(options, CONF_OUTPUT_FORMAT, DEFAULT_OUTPUT_FORMAT) ]

\* _async_fetch_voices: the catalog of the service, or [] when the call raised
FetchedCatalog ==
    << [ShortName |-> "en-US-EmmaNeural", Locale |-> Str_enUS],
       [ShortName |-> "fr-FR-HenriNeural", Locale |-> Str_frFR] >>
FetchResults == {FetchedCatalog, <<>>}

(***************************************************************************)
(* __init__.py and the host's config entries: setup, unload, reload        *)
(***************************************************************************)
\* hass.config_entries.async_update_entry(entry, options=new): nothing
\* happens when the options are the same; otherwise they are stored and the
\* host creates one task per update listener
ListenerTasks(new) == IF new # entry_options THEN update_listeners ELSE 0

\* dict(entry.options) without the key
DictWithout(d, key) == [k \in DOMAIN d \ {key} |-> d[k]]

\* a mutant of MigratedOptions: the deprecated key is kept
MigratedOptionsKept(options) == options

\* async_setup_entry, lines 28-31: the options the entry has after them
MigratedOptions(options) ==
    IF CONF_OUTPUT_FORMAT \in DOMAIN options
    THEN DictWithout(options, CONF_OUTPUT_FORMAT)
    ELSE options

\* async_setup_entry up to its await: the migration, then
\* entry.add_update_listener(update_listener), whose remover is dropped
SetupEntryBegin ==
    /\ entry_options' = MigratedOptions(entry_options)
    /\ reload_tasks' = reload_tasks + ListenerTasks(MigratedOptions(entry_options))
    /\ update_listeners' = update_listeners + 1
    /\ entry_state' = "setup_in_progress"

\* the host sets up an entry that is not loaded (after its creation, or when
\* the user loads it again)
LoadEntry ==
    /\ flow_pc = "idle" /\ req_pc = "idle"
    /\ entry_exists /\ entry_state = "not_loaded"
    /\ SetupEntryBegin
    /\ UNCHANGED <<entry_exists, entry_title, entity, edits, unloads,
                   flowVars, stripVars, voiceVars, reqVars, fileVars>>

\* async_forward_entry_setups: tts.async_setup_entry fetches the voices and
\* adds the entity, which reads the entry's options
PlatformSetup ==
    /\ flow_pc = "idle" /\ req_pc = "idle"
    /\ entry_state = "setup_in_progress"
    /\ \E voices \in FetchResults : entity' = EntityInit(entry_options, voices)
    /\ entry_state' = "loaded"
    /\ UNCHANGED <<entry_exists, entry_options, entry_title, update_listeners,
                   reload_tasks, edits, unloads,
                   flowVars, stripVars, voiceVars, reqVars, fileVars>>

\* the user unloads the entry: async_unload_entry
UnloadEntry ==
    /\ flow_pc = "idle" /\ req_pc = "idle"
    /\ entry_state = "loaded"
    /\ unloads < MaxUnloads
    /\ entity' = <<>>
    /\ entry_state' = "not_loaded"
    /\ unloads' = unloads + 1
    /\ UNCHANGED <<entry_exists, entry_options, entry_title, update_listeners,
                   reload_tasks, edits,
                   flowVars, stripVars, voiceVars, reqVars, fileVars>>

\* update_listener: async_reload takes the entry's setup lock and unloads it
ReloadUnload ==
    /\ flow_pc = "idle" /\ req_pc = "idle"
    /\ reload_tasks > 0
    /\ entry_state \in {"loaded", "not_loaded"}
    /\ reload_tasks' = reload_tasks - 1
    /\ entity' = <<>>
    /\ entry_state' = "reloading"
    /\ UNCHANGED <<entry_exists, entry_options, entry_title, update_listeners,
                   edits, unloads, flowVars, stripVars, voiceVars, reqVars, fileVars>>

\* update_listener: async_reload then sets the entry up again
ReloadSetup ==
    /\ flow_pc = "idle" /\ req_pc = "idle"
    /\ entry_state = "reloading"
    /\ SetupEntryBegin
    /\ UNCHANGED <<entry_exists, entry_title, entity, edits, unloads,
                   flowVars, stripVars, voiceVars, reqVars, fileVars>>

(***************************************************************************)
(* config_flow.py: EdgeTtsConfigFlow.async_step_user and                   *)
(* EdgeTtsOptionsFlow.async_step_init                                      *)
(***************************************************************************)
\* the host receives a submission of the setup form (or the request to show
\* it) and calls the step with it
SubmitUser(inputs) ==
    /\ flow_pc = "idle" /\ req_pc = "idle"
    /\ ~entry_exists
    /\ \E input \in inputs \cup {NoInput} : user_input' = input
    /\ flow_kind' = "user"
    /\ flow_pc' = "submitted"
    /\ UNCHANGED <<flow_result, entryVars, stripVars, voiceVars, reqVars, fileVars>>

\* async_step_user, and the host's creation of the entry from its result
StepUser ==
    /\ flow_pc = "submitted" /\ flow_kind = "user"
    /\ LET errors == IF user_input # NoInput THEN _validate_options(user_input) ELSE <<>>
       IN  IF user_input # NoInput /\ DOMAIN errors = {}
           THEN /\ flow_result' =
                      [type |-> "create_entry",
                       title |-> <<"Edge TTS (", user_input[CONF_VOICE], ")">>,
                       data |-> <<>>,
                       options |-> user_input]
                /\ entry_exists' = TRUE
                /\ entry_options' = user_input
                /\ entry_title' = <<"Edge TTS (", user_input[CONF_VOICE], ")">>
                /\ UNCHANGED <<entry_state, update_listeners, reload_tasks, entity,
                               edits, unloads>>
           ELSE /\ flow_result' =
                      [type |-> "form", step_id |-> "user", errors |-> errors,
                       defaults |-> [voice |-> DEFAULT_VOICE, rate |-> DEFAULT_RATE,
                                     volume |-> DEFAULT_VOLUME, pitch |-> DEFAULT_PITCH,
                                     output_format |-> DEFAULT_OUTPUT_FORMAT]]
                /\ UNCHANGED entryVars
    /\ user_input' = NoInput
    /\ flow_pc' = "idle"
    /\ UNCHANGED <<flow_kind, stripVars, voiceVars, reqVars, fileVars>>

\* the host receives a submission of the options form (or the request to
\* show it) and calls the step with it
SubmitOptions(inputs) ==
    /\ flow_pc = "idle" /\ req_pc = "idle"
    /\ entry_exists
    /\ \/ user_input' = NoInput /\ UNCHANGED edits
       \/ /\ edits < MaxEdits
          /\ \E input \in inputs : user_input' = input
          /\ edits' = edits + 1
    /\ flow_kind' = "options"
    /\ flow_pc' = "submitted"
    /\ UNCHANGED <<flow_result, entry_exists, entry_options, entry_title, entry_state,
                   update_listeners, reload_tasks, entity, unloads,
                   stripVars, voiceVars, reqVars, fileVars>>

\* async_step_init, and the host's update of the entry from its result:
\* async_update_entry(entry, options=result["data"])
StepInit ==
    /\ flow_pc = "submitted" /\ flow_kind = "options"
    /\ LET errors == IF user_input # NoInput THEN _validate_options(user_input) ELSE <<>>
       IN  IF user_input # NoInput /\ DOMAIN errors = {}
           THEN /\ flow_result' = [type |-> "create_entry", title |-> "", data |-> user_input]
                /\ entry_options' = user_input
                /\ reload_tasks' = reload_tasks + ListenerTasks(user_input)
                /\ UNCHANGED <<entry_exists, entry_title, entry_state, update_listeners,
                               entity, edits, unloads>>
           ELSE /\ flow_result' =
                      [type |-> "form", step_id |-> "init", errors |-> errors,
                       defaults |->
                         [voice |-> DictGet(entry_options, CONF_VOICE, DEFAULT_VOICE),
                          rate |-> DictGet(entry_options, CONF_RATE, DEFAULT_RATE),
                          volume |-> DictGet(entry_options, CONF_VOLUME, DEFAULT_VOLUME),
                          pitch |-> DictGet(entry_options, CONF_PITCH, DEFAULT_PITCH),
                          output_format |->
                            DictGet(entry_options, CONF_OUTPUT_FORMAT, DEFAULT_OUTPUT_FORMAT)]]
                /\ UNCHANGED entryVars
    /\ user_input' = NoInput
    /\ flow_pc' = "idle"
    /\ UNCHANGED <<flow_kind, stripVars, voiceVars, reqVars, fileVars>>

(***************************************************************************)
(* The forms: submissions whose rate, volume and pitch are well and badly  *)
(* formed in every combination.                                            *)
(***************************************************************************)
FormTexts ==
    { <<>>, <<"+", "0", "%">>, <<"5", "%", "\n">>, <<"-", "1", "0", "H", "z">>,
      <<"+", "%">>, <<"+", "5", "%", "x">> }

InitEntry ==
    /\ entry_exists = FALSE /\ entry_options = <<>> /\ entry_title = ""
    /\ entry_state = "not_loaded" /\ update_listeners = 0 /\ reload_tasks = 0
    /\ entity = <<>> /\ edits = 0 /\ unloads = 0
    /\ flow_pc = "idle" /\ flow_kind = "" /\ user_input = NoInput /\ flow_result = <<>>

InitFlow == InitEntry /\ IdleStrip /\ IdleVoice /\ IdleRequest

NextFlow ==
    \/ SubmitUser(FormInputs({DEFAULT_VOICE}, FormTexts, FormTexts, FormTexts))
    \/ StepUser
    \/ SubmitOptions(FormInputs({DEFAULT_VOICE}, FormTexts, FormTexts, FormTexts))
    \/ StepInit
    \/ LoadEntry
    \/ PlatformSetup
    \/ ReloadUnload
    \/ ReloadSetup

SpecFlow == InitFlow /\ [][NextFlow]_vars

\* the shape of a rate, volume or pitch: an optional sign, digits, the unit
\* (and, as $ of the pattern allows, one line break after the unit)
WellFormed(s, unit) ==
    \E a \in {0, 1}, n \in 1 .. Len(s) :
        /\ a = 1 => s[1] \in {"+", "-"}
        /\ Len(s) - (a + n + Len(unit)) \in {0, 1}
        /\ \A k \in (a + 1) .. (a + n) : s[k] \in Digits
        /\ \A j \in 1 .. Len(unit) : s[a + n + j] = unit[j]
        /\ Len(s) = a + n + Len(unit) + 1 => s[Len(s)] = "\n"

UnitOf(field) == IF field = CONF_PITCH THEN <<"H", "z">> ELSE <<"%">>

Offending(input) ==
    { f \in {CONF_RATE, CONF_VOLUME, CONF_PITCH} :
        input[f] # <<>> /\ ~WellFormed(input[f], UnitOf(f)) }

ErrorCode(field) ==
    CASE field = CONF_RATE -> "invalid_rate"
      [] field = CONF_VOLUME -> "invalid_volume"
      [] field = CONF_PITCH -> "invalid_pitch"

Str_minus5pct == <<"-", "5", "%">>
Str_plus2Hz == <<"+", "2", "H", "z">>

LifeInputs ==
    FormInputs({DEFAULT_VOICE, "fr-FR-HenriNeural"}, {Str_minus5pct}, {DEFAULT_VOLUME},
               {Str_plus2Hz})

InitLife == InitEntry /\ IdleStrip /\ IdleVoice /\ IdleRequest

NextLife ==
    \/ SubmitUser(LifeInputs)
    \/ StepUser
    \/ SubmitOptions(LifeInputs)
    \/ StepInit
    \/ LoadEntry
    \/ PlatformSetup
    \/ UnloadEntry
    \/ ReloadUnload
    \/ ReloadSetup

SpecLife ==
    /\ InitLife
    /\ [][NextLife]_vars
    /\ WF_vars(StepUser) /\ WF_vars(StepInit)
    /\ SF_vars(PlatformSetup) /\ SF_vars(ReloadUnload) /\ SF_vars(ReloadSetup)

\* C1: the options form, opened on the loaded entry that the setup form has
\* just created, offers as its current values exactly the values that were
\* submitted to the setup form.
C1_RoundTrip ==
    [][ ( /\ flow_pc = "submitted" /\ flow_kind = "options" /\ user_input = NoInput
          /\ entry_state = "loaded" /\ edits = 0
          /\ flow_result # <<>> /\ flow_result.type = "create_entry"
          /\ flow_pc' = "idle" )
        => flow_result'.defaults = flow_result.options ]_vars

\* the entry is loaded, no update_listener task is left, the deprecated key
\* is gone from the stored options and the entity holds what is stored
Settled ==
    /\ entry_state = "loaded"
    /\ reload_tasks = 0
    /\ CONF_OUTPUT_FORMAT \notin DOMAIN entry_options
    /\ entity = EntityInit(entry_options, entity._voices)

\* C10: every change of the stored options of a loaded entry creates an
\* update_listener task, that is a reload (unload, then setup with the
\* migration); and whenever such a task is pending the entry comes to be
\* loaded with no task pending, the deprecated output_format key deleted
\* from the stored options and the entity built from the stored options.
C10_ReloadOnOptionsChange ==
    /\ [][ (entry_state = "loaded" /\ entry_options' # entry_options)
             => reload_tasks' > reload_tasks ]_vars
    /\ [][ (reload_tasks' < reload_tasks) => (entity' = <<>> /\ entry_state' = "reloading") ]_vars
    /\ [][ (entry_state = "reloading" /\ entry_state' # "reloading")
             => (entry_state' = "setup_in_progress"
                 /\ CONF_OUTPUT_FORMAT \notin DOMAIN entry_options') ]_vars
    /\ (reload_tasks > 0) ~> Settled

\* an options edit changed the voice of the loaded entry, the reloads it
\* caused are done and the entity speaks with the new voice
C10_Witness ==
    /\ Settled
    /\ edits = 1
    /\ update_listeners >= 3
    /\ flow_result # <<>> /\ flow_result.type = "create_entry"
    /\ flow_result.data[CONF_OUTPUT_FORMAT] = "wav"
    /\ entity._default_voice = "fr-FR-HenriNeural"
    /\ entry_title = <<"Edge TTS (", DEFAULT_VOICE, ")">>

(***************************************************************************)
(* tts.py: EdgeTTSEntity.async_get_tts_audio                               *)
(***************************************************************************)
ATTR_VOICE == "voice"
ATTR_RATE == "rate"
ATTR_VOLUME == "volume"
ATTR_PITCH == "pitch"
ATTR_PREFERRED_FORMAT == "preferred_format"

\* lines 163-171: the voice, rate, volume, pitch and output format of the request
ResolvedOptions(self, language, options) ==
    [ voice |-> RequestVoice(options, language, self._default_voice, self._voices),
      rate |-> DictGet(options, ATTR_RATE, self._default_rate),
      volume |-> DictGet(options, ATTR_VOLUME, self._default_volume),
      pitch |-> DictGet(options, ATTR_PITCH, self._default_pitch),
      output_format |->
          DictGet(options, ATTR_PREFERRED_FORMAT,
                  DictGet(options, CONF_OUTPUT_FORMAT, self._default_output_format)) ]

\* for chunk in stream: if chunk["type"] == "audio": audio_chunks.append(chunk["data"])
RECURSIVE AudioChunks(_)
AudioChunks(stream) ==
    IF stream = <<>> THEN <<>>
    ELSE IF Head(stream).type = "audio"
         THEN <<Head(stream).data>> \o AudioChunks(Tail(stream))
         ELSE AudioChunks(Tail(stream))

\* b"".join(audio_chunks)
RECURSIVE Join(_)
Join(chunks) == IF chunks = <<>> THEN <<>> ELSE Head(chunks) \o Join(Tail(chunks))

\* tts_component.async_convert_audio(hass, "mp3", audio_bytes, "wav") when it
\* succeeds: the audio in a RIFF container
ConvertedToWav(audio_bytes) == <<82, 73, 70, 70>> \o audio_bytes

\* lines 174-205, the body of the try: what it returns or the exception that
\* leaves it.  env says what the services do: whether edge_tts.Communicate
\* raises, the chunks the stream yields and whether it raises after them,
\* and what the converter does ("ok", "FileNotFoundError", "error").
SynthesisBody(resolved, env) ==
    IF env.open = "raise"
    THEN [exc |-> "ValueError", ret |-> <<>>]
    ELSE IF env.stream_raises
    THEN [exc |-> "ClientError", ret |-> <<>>]
    ELSE LET audio_chunks == AudioChunks(env.stream)
             audio_bytes == _strip_id3v2(Join(audio_chunks))
         IN  IF audio_chunks = <<>>
             THEN [exc |-> "HomeAssistantError: No audio received from Edge TTS",
                   ret |-> <<>>]
             ELSE IF resolved.output_format = "wav" /\ env.convert = "ok"
             THEN [exc |-> None, ret |-> <<"wav", ConvertedToWav(audio_bytes)>>]
             ELSE [exc |-> None, ret |-> <<"mp3", audio_bytes>>]

\* a mutant of GetTtsAudio: the exception of the body is raised as it is
GetTtsAudioNoWrap(self, message, language, options, env) ==
    LET resolved == ResolvedOptions(self, language, options)
        body == SynthesisBody(resolved, env)
    IN  [ resolved |-> resolved,
          sessions |-> <<[text |-> message, voice |-> resolved.voice, rate |-> resolved.rate,
                          volume |-> resolved.volume, pitch |-> resolved.pitch]>>,
          raised |-> body.exc,
          ret |-> body.ret ]

\* a mutant of GetTtsAudio: a failed conversion fails the request
GetTtsAudioNoFallback(self, message, language, options, env) ==
    LET resolved == ResolvedOptions(self, language, options)
        body == SynthesisBody(resolved, env)
        failed == body.exc # None \/ (resolved.output_format = "wav" /\ env.convert # "ok")
    IN  [ resolved |-> resolved,
          sessions |-> <<[text |-> message, voice |-> resolved.voice, rate |-> resolved.rate,
                          volume |-> resolved.volume, pitch |-> resolved.pitch]>>,
          raised |-> IF failed THEN "HomeAssistantError: Edge TTS request failed" ELSE None,
          ret |-> IF failed THEN <<>> ELSE body.ret ]

\* async_get_tts_audio: the options it resolved, the sessions it opened with
\* edge_tts.Communicate, and what it returns or raises (lines 206-208: every
\* exception of the body becomes HomeAssistantError("Edge TTS request failed"))
GetTtsAudio(self, message, language, options, env) ==
    LET resolved == ResolvedOptions(self, language, options)
        body == SynthesisBody(resolved, env)
    IN  [ resolved |-> resolved,
          sessions |-> <<[text |-> message, voice |-> resolved.voice, rate |-> resolved.rate,
                          volume |-> resolved.volume, pitch |-> resolved.pitch]>>,
          raised |-> IF body.exc # None
                     THEN "HomeAssistantError: Edge TTS request failed" ELSE None,
          ret |-> IF body.exc # None THEN <<>> ELSE body.ret ]

(***************************************************************************)
(* What the services of a synthesis do.  The chunks: an ID3v2 header with  *)
(* a 2-byte tag, an MP3 frame, an audio chunk without data, and a          *)
(* word-boundary chunk, which is not audio.                                *)
(***************************************************************************)
Chunks ==
    { [type |-> "audio", data |-> <<73, 68, 51, 4, 0, 0, 0, 0, 0, 2, 9, 9>>],
      [type |-> "audio", data |-> <<255, 251>>],
      [type |-> "audio", data |-> <<>>],
      [type |-> "WordBoundary", data |-> <<>>] }

Streams == UNION { [1 .. n -> Chunks] : n \in 0 .. MaxChunks }

\* what does not happen is fixed: no stream after a failed open, no
\* conversion but of audio that is asked as wav
SynthEnvs ==
    { env \in [open : {"ok", "raise"}, stream : Streams, stream_raises : BOOLEAN,
               convert : {"ok", "FileNotFoundError", "error"}] :
        /\ env.open = "raise" => (env.stream = <<>> /\ ~env.stream_raises)
        /\ (env.open = "raise" \/ env.stream_raises \/ AudioChunks(env.stream) = <<>>)
              => env.convert = "ok" }

Message == "Hello"

\* the caller has its result: the request is over
Return ==
    /\ req_pc = "returned"
    /\ req_pc' = "idle"
    /\ call' = <<>>
    /\ outcome' = <<>>
    /\ UNCHANGED <<fileVars, entryVars, flowVars, stripVars, voiceVars>>

\* a call of async_get_tts_audio on the entity of the loaded entry
GetTtsAudioCall(languages, optionSets, envs) ==
    /\ req_pc = "idle"
    /\ flow_pc = "idle"
    /\ entity # <<>>
    /\ \E language \in languages, options \in optionSets, env \in envs :
         /\ ResolvedOptions(entity, language, options).output_format # "wav"
               => env.convert = "ok"
         /\ call' = [op |-> "async_get_tts_audio", self |-> entity, message |-> Message,
                     language |-> language, options |-> options, env |-> env]
         /\ outcome' = GetTtsAudio(entity, Message, language, options, env)
    /\ req_pc' = "returned"
    /\ UNCHANGED <<fileVars, entryVars, flowVars, stripVars, voiceVars>>

(***************************************************************************)
(* tts.py: EdgeTTSEntity.async_speak, _split_media_players,                *)
(* _write_temp_audio and _schedule_temp_cleanup                            *)
(***************************************************************************)
\* the entity registry: the platform of an entity id, None when the id is
\* not registered
RegistryPlatform(entity_id) ==
    CASE entity_id = "media_player.living_room_tv" -> "apple_tv"
      [] entity_id = "media_player.bedroom_tv" -> "apple_tv"
      [] entity_id = "media_player.kitchen" -> "cast"
      [] OTHER -> None

MediaPlayers ==
    { "media_player.living_room_tv", "media_player.bedroom_tv",
      "media_player.kitchen", "media_player.unregistered" }

TargetLists == UNION { [1 .. n -> MediaPlayers] : n \in 0 .. MaxTargets }

\* for entity_id in entity_ids: ... apple_tv_ids.append / other_ids.append
RECURSIVE SplitLoop(_, _, _)
SplitLoop(entity_ids, apple_tv_ids, other_ids) ==
    IF entity_ids = <<>> THEN <<apple_tv_ids, other_ids>>
    ELSE IF RegistryPlatform(Head(entity_ids)) = "apple_tv"
         THEN SplitLoop(Tail(entity_ids), Append(apple_tv_ids, Head(entity_ids)), other_ids)
         ELSE SplitLoop(Tail(entity_ids), apple_tv_ids, Append(other_ids, Head(entity_ids)))

\* a mutant of _split_media_players: an id that is not registered counts as
\* an Apple TV
RECURSIVE SplitLoopUnregistered(_, _, _)
SplitLoopUnregistered(entity_ids, apple_tv_ids, other_ids) ==
    IF entity_ids = <<>> THEN <<apple_tv_ids, other_ids>>
    ELSE IF RegistryPlatform(Head(entity_ids)) \in {"apple_tv", None}
         THEN SplitLoopUnregistered(Tail(entity_ids),
                                    Append(apple_tv_ids, Head(entity_ids)), other_ids)
         ELSE SplitLoopUnregistered(Tail(entity_ids), apple_tv_ids,
                                    Append(other_ids, Head(entity_ids)))

split_media_players_unregistered(entity_ids) ==
    SplitLoopUnregistered(entity_ids, <<>>, <<>>)

_split_media_players(entity_ids) ==
    IF entity_ids = <<>> THEN <<<<>>, <<>>>>
    ELSE SplitLoop(entity_ids, <<>>, <<>>)

\* self._attr_default_options, lines 121-127
DefaultOptions(self) ==
    [voice |-> self._default_voice, rate |-> self._default_rate,
     volume |-> self._default_volume, pitch |-> self._default_pitch,
     output_format |-> self._default_output_format]

\* manager.process_options(self, language, options), line 231: the options
\* of the request laid over the default options of the entity
MergedOptions(self, options) ==
    [k \in DOMAIN DefaultOptions(self) \cup DOMAIN options |->
        IF k \in DOMAIN options THEN options[k] ELSE DefaultOptions(self)[k]]

\* _locale_from_voice on the voices of the model: self._attr_default_language
LocaleFromVoice(voice) ==
    CASE voice = "en-US-EmmaMultilingualNeural" -> Str_enUS
      [] voice = "fr-FR-HenriNeural" -> Str_frFR
      [] OTHER -> Str_enUS

\* manager.process_options: language or the default language of the entity
ProcessedLanguage(self, language) ==
    IF language # <<>> THEN language ELSE LocaleFromVoice(self._default_voice)

\* tempfile.NamedTemporaryFile(suffix=f".{extension}", delete=False).name:
\* a name no other file has
TempPath(n, extension) == <<"tmp", n, extension>>

\* the delay of _schedule_temp_cleanup
CleanupDelay == 600

\* async_speak up to the await of the play_media call (or to its end, when
\* it ends before).  super_ok says whether the announce of the base class
\* succeeds, env what the services of the synthesis do.
AsyncSpeak(targets, languages, optionSets, envs) ==
    /\ req_pc = "idle"
    /\ flow_pc = "idle"
    /\ entity # <<>>
    /\ next_tmp < MaxFiles
    /\ \E media_player_entity_id \in targets, language \in languages,
          options \in optionSets, env \in envs, super_ok \in BOOLEAN :
         LET split == _split_media_players(media_player_entity_id)
             apple_tv_ids == split[1]
             other_ids == split[2]
             super_calls == IF other_ids # <<>> THEN <<other_ids>> ELSE <<>>
             merged_options == MergedOptions(entity, options)
             audio == GetTtsAudio(entity, Message, ProcessedLanguage(entity, language),
                                  merged_options, env)
             base == [apple_tv_ids |-> apple_tv_ids, other_ids |-> other_ids,
                      super_calls |-> super_calls, play_calls |-> <<>>,
                      sessions |-> <<>>, file_path |-> None, raised |-> None]
             file_path == TempPath(next_tmp, audio.ret[1])
         IN  /\ other_ids = <<>> => super_ok
             /\ call' = [op |-> "async_speak", self |-> entity,
                         media_player_entity_id |-> media_player_entity_id,
                         message |-> Message, language |-> language, options |-> options]
             /\ IF other_ids # <<>> /\ ~super_ok
                THEN /\ outcome' = [base EXCEPT !.raised = "HomeAssistantError: announce failed"]
                     /\ req_pc' = "returned"
                     /\ UNCHANGED fileVars
                ELSE IF apple_tv_ids = <<>>
                THEN /\ outcome' = base
                     /\ req_pc' = "returned"
                     /\ UNCHANGED fileVars
                ELSE IF audio.raised # None
                THEN /\ outcome' = [base EXCEPT !.sessions = audio.sessions,
                                                !.raised = audio.raised]
                     /\ req_pc' = "returned"
                     /\ UNCHANGED fileVars
                ELSE IF audio.ret[1] = "" \/ audio.ret[2] = <<>>
                THEN /\ outcome' =
                          [base EXCEPT !.sessions = audio.sessions,
                              !.raised = "HomeAssistantError: No audio received from Edge TTS"]
                     /\ req_pc' = "returned"
                     /\ UNCHANGED fileVars
                ELSE /\ files' = files \cup {file_path}
                     /\ next_tmp' = next_tmp + 1
                     /\ outcome' =
                          [base EXCEPT !.sessions = audio.sessions,
                              !.file_path = file_path,
                              !.play_calls =
                                 <<[entity_id |-> apple_tv_ids,
                                    media_content_id |-> file_path,
                                    media_content_type |-> "music",
                                    announce |-> TRUE, blocking |-> TRUE]>>]
                     /\ req_pc' = "playing"
                     /\ UNCHANGED timers
    /\ UNCHANGED <<entryVars, flowVars, stripVars, voiceVars>>

\* the play_media call returns: self._schedule_temp_cleanup(file_path)
PlayMediaDone ==
    /\ req_pc = "playing"
    /\ timers' = timers \cup {[path |-> outcome.file_path, delay |-> CleanupDelay]}
    /\ req_pc' = "returned"
    /\ UNCHANGED <<call, outcome, files, next_tmp, entryVars, flowVars, stripVars, voiceVars>>

\* the play_media call raises: async_speak ends with its exception
PlayMediaFailed ==
    /\ req_pc = "playing"
    /\ outcome' = [outcome EXCEPT !.raised = "HomeAssistantError: play_media failed"]
    /\ req_pc' = "returned"
    /\ UNCHANGED <<call, fileVars, entryVars, flowVars, stripVars, voiceVars>>

\* _cleanup, called by the host when the delay is over: os.remove(path); the
\* OSError of a file that is gone is logged and goes no further
Cleanup ==
    /\ \E t \in timers :
         /\ files' = files \ {t.path}
         /\ timers' = timers \ {t}
    /\ UNCHANGED <<next_tmp, reqVars, entryVars, flowVars, stripVars, voiceVars>>

\* something else than the integration removes a temporary file
RemovedElsewhere ==
    /\ \E path \in files : files' = files \ {path}
    /\ UNCHANGED <<timers, next_tmp, reqVars, entryVars, flowVars, stripVars, voiceVars>>

(***************************************************************************)
(* Requests to a loaded entity                                             *)
(***************************************************************************)
Str_plus10pct == <<"+", "1", "0", "%">>
Str_minus5Hz == <<"-", "5", "H", "z">>

RequestOptions ==
    { <<>>,
      [voice |-> "de-DE-KatjaNeural"],
      [voice |-> ""],
      [rate |-> Str_plus10pct, volume |-> Str_minus5pct, pitch |-> Str_minus5Hz],
      [output_format |-> "wav"],
      [output_format |-> "wav", preferred_format |-> "mp3"],
      [voice |-> "de-DE-KatjaNeural", preferred_format |-> "wav"] }

RequestLanguages == { <<>>, <<"f", "r">>, <<"d", "e">> }

\* the options of an entry that the setup form created and the host set up
LoadedOptions == { MigratedOptions(input) : input \in LifeInputs }

InitSpeak ==
    /\ entry_exists = TRUE
    /\ entry_options \in LoadedOptions
    /\ entry_title = <<"Edge TTS (", entry_options[CONF_VOICE], ")">>
    /\ entry_state = "loaded"
    /\ update_listeners = 1 /\ reload_tasks = 0 /\ edits = 0 /\ unloads = 0
    /\ \E voices \in FetchResults : entity = EntityInit(entry_options, voices)
    /\ IdleFlow /\ IdleRequest /\ IdleStrip /\ IdleVoice

\* the services of an announce: the session does not open, or the stream
\* yields one chunk and the converter works or not
SpeakEnvs ==
    { env \in SynthEnvs :
        /\ Len(env.stream) = 1 \/ env.open = "raise"
        /\ ~env.stream_raises
        /\ env.convert # "FileNotFoundError"
        /\ env.convert = "error" => env.stream[1].data = <<255, 251>> }

\* the options and the languages of an announce
SpeakOptions ==
    { <<>>, [output_format |-> "wav"],
      [voice |-> "de-DE-KatjaNeural", preferred_format |-> "wav"] }

SpeakLanguages == { <<>>, <<"f", "r">> }

NextSynth ==
    \/ GetTtsAudioCall(RequestLanguages, RequestOptions, SynthEnvs)
    \/ Return

SpecSynth == InitSpeak /\ [][NextSynth]_vars

NextSpeak ==
    \/ AsyncSpeak(TargetLists, SpeakLanguages, SpeakOptions, SpeakEnvs)
    \/ PlayMediaDone
    \/ PlayMediaFailed
    \/ Return
    \/ Cleanup
    \/ RemovedElsewhere

SpecSpeak == InitSpeak /\ [][NextSpeak]_vars

(***************************************************************************)
(* Claims on async_get_tts_audio                                           *)
(***************************************************************************)
GenericFailure == "HomeAssistantError: Edge TTS request failed"

IsAudio(chunk) == chunk.type = "audio"

SynthesisReturned == req_pc = "returned" /\ call.op = "async_get_tts_audio"

\* a step of the synthesis raises, or the stream has no audio chunk
SynthesisFails ==
    \/ call.env.open = "raise"
    \/ call.env.stream_raises
    \/ SelectSeq(call.env.stream, IsAudio) = <<>>

\* C5: a synthesis whose stream yields no audio chunk, or one of whose steps
\* raises, ends with the one generic error "Edge TTS request failed" and
\* returns nothing; no other error leaves async_get_tts_audio, a synthesis
\* without such a failure raises nothing, and one session is opened per
\* request, failed or not.
C5_UniformFailure ==
    SynthesisReturned =>
        /\ SynthesisFails => (outcome.raised = GenericFailure /\ outcome.ret = <<>>)
        /\ ~SynthesisFails => (outcome.raised = None /\ outcome.ret # <<>>)
        /\ outcome.raised \in {None, GenericFailure}
        /\ Len(outcome.sessions) = 1

C5_Witness ==
    /\ SynthesisReturned
    /\ call.env.open = "ok" /\ ~call.env.stream_raises
    /\ Len(call.env.stream) = 2
    /\ \A i \in 1 .. 2 : call.env.stream[i].type = "WordBoundary"
    /\ outcome.raised = GenericFailure

\* the tag-stripped MP3 audio of the request
StrippedAudio == _strip_id3v2(Join([i \in 1 .. Len(SelectSeq(call.env.stream, IsAudio)) |->
                                        SelectSeq(call.env.stream, IsAudio)[i].data]))

\* C6: when the output format of the request is wav and the stream gave an
\* audio chunk without raising, the request returns ("wav", converted
\* bytes) exactly when the conversion succeeds; when the converter is
\* missing or fails, the request raises nothing and returns ("mp3", the
\* tag-stripped MP3 bytes).
C6_WavFallback ==
    (SynthesisReturned /\ ~SynthesisFails /\ outcome.resolved.output_format = "wav") =>
        /\ outcome.raised = None
        /\ call.env.convert = "ok" <=> outcome.ret[1] = "wav"
        /\ call.env.convert = "ok" => outcome.ret = <<"wav", ConvertedToWav(StrippedAudio)>>
        /\ call.env.convert # "ok" => outcome.ret = <<"mp3", StrippedAudio>>

C6_Witness ==
    /\ SynthesisReturned
    /\ outcome.resolved.output_format = "wav"
    /\ call.env.convert = "FileNotFoundError"
    /\ Len(SelectSeq(call.env.stream, IsAudio)) = 2
    /\ call.env.stream[1].data # <<>> /\ call.env.stream[1].data[1] = 73
    /\ outcome.ret = <<"mp3", <<255, 251>>>>

(***************************************************************************)
(* Claims on async_speak                                                   *)
(***************************************************************************)
IsAppleTv(entity_id) == RegistryPlatform(entity_id) = "apple_tv"
IsNotAppleTv(entity_id) == ~IsAppleTv(entity_id)

SpeakCalled == req_pc \in {"playing", "returned"} /\ call.op = "async_speak"

\* C9: the targets of an announce are split in two groups, each target in
\* one group: the Apple TV group holds the targets that the registry gives
\* the platform apple_tv, the other group the rest (the unregistered
\* included), both in the order of the request; the other group, when it
\* is not empty, goes unchanged to the announce of the base class; and a
\* play_media call is made at most once, for the whole Apple TV group, with
\* the path of the temporary file, and never for an empty group.
C9_RoutingPartition ==
    SpeakCalled =>
        LET targets == call.media_player_entity_id
            local == SelectSeq(targets, IsAppleTv)
            others == SelectSeq(targets, IsNotAppleTv)
        IN  /\ outcome.apple_tv_ids = local
            /\ outcome.other_ids = others
            /\ outcome.super_calls = IF others = <<>> THEN <<>> ELSE <<others>>
            /\ Len(outcome.play_calls) <= 1
            /\ \A i \in 1 .. Len(outcome.play_calls) :
                  /\ outcome.play_calls[i].entity_id = local
                  /\ local # <<>>
                  /\ outcome.file_path # None
                  /\ outcome.play_calls[i].media_content_id = outcome.file_path
            /\ local = <<>> => outcome.file_path = None

C9_Witness ==
    /\ SpeakCalled
    /\ call.media_player_entity_id = <<"media_player.unregistered", "media_player.bedroom_tv">>
    /\ outcome.super_calls = << <<"media_player.unregistered">> >>
    /\ Len(outcome.play_calls) = 1
    /\ outcome.play_calls[1].entity_id = <<"media_player.bedroom_tv">>

\* C3: whenever async_speak has written a temporary file and its play_media
\* call ends, with success or with an error, the deletion of that file is
\* scheduled with a delay of 600 seconds.
C3_CleanupAlwaysScheduled ==
    [][ (req_pc = "playing" /\ req_pc' = "returned")
          => [path |-> outcome.file_path, delay |-> 600] \in timers' ]_vars

(***************************************************************************)
(* Requests during the life of an entry                                    *)
(***************************************************************************)
EntryEnvs ==
    { env \in SynthEnvs : env.open = "raise" \/ env.stream = <<[type |-> "audio",
                                                               data |-> <<255, 251>>]>> }

\* the options of a request are resolved before its first await (lines
\* 161-171), and its result is looked at before the host does another step
\* on the entry (the guard req_pc = "idle" of these steps)
NextEntry ==
    \/ NextLife
    \/ GetTtsAudioCall(RequestLanguages, RequestOptions, EntryEnvs)
    \/ Return

SpecEntry == InitLife /\ [][NextEntry]_vars

BuiltInDefault ==
    [voice |-> DEFAULT_VOICE, rate |-> DEFAULT_RATE, volume |-> DEFAULT_VOLUME,
     pitch |-> DEFAULT_PITCH, output_format |-> DEFAULT_OUTPUT_FORMAT]

\* the request carries the option; an empty voice is no voice
Carries(per_call, key) ==
    key \in DOMAIN per_call /\ (key = CONF_VOICE => per_call[key] # "")

\* the option of the request, else the stored one, else the default
Precedence(key, per_call, stored) ==
    IF Carries(per_call, key) THEN per_call[key]
    ELSE IF key \in DOMAIN stored THEN stored[key]
    ELSE BuiltInDefault[key]

\* C2 as stated: each option used by a synthesis on a loaded entry with no
\* reload pending is the option of the request when it carries one, else
\* the option stored in the config entry, else the built-in default.
C2_StoredOptionPrecedence ==
    (SynthesisReturned /\ entry_state = "loaded" /\ reload_tasks = 0) =>
        \A key \in DOMAIN BuiltInDefault :
            outcome.resolved[key] = Precedence(key, call.options, entry_options)

\* C2: rate, volume and pitch are the option of the request when it carries
\* one, else the option the entry stored when the entity was set up, else
\* the default.  The voice is the voice of the request when it carries a
\* non-empty one; when the request has no voice key and names a language
\* that a catalog voice matches, the first matching catalog voice; in the
\* other cases the voice stored at setup, else the default.  The output
\* format is preferred_format when the request carries it, else its
\* output_format, else the one stored at setup, else the default.  Once the
\* entry is loaded with no reload pending, the options stored at setup are
\* the options of the entry.
C2_OptionPrecedence ==
    /\ SynthesisReturned =>
        LET per_call == call.options
            stored == call.self.read_options
            matches == FirstMatch(call.self._voices, call.language)
            used == outcome.resolved
        IN  /\ \A key \in {CONF_RATE, CONF_VOLUME, CONF_PITCH} :
                  used[key] = Precedence(key, per_call, stored)
            /\ used.voice =
                  IF Carries(per_call, CONF_VOICE)
                  THEN per_call.voice
                  ELSE IF CONF_VOICE \notin DOMAIN per_call /\ call.language # <<>>
                          /\ matches # {}
                  THEN call.self._voices[CHOOSE i \in matches : TRUE].ShortName
                  ELSE Precedence(CONF_VOICE, <<>>, stored)
            /\ used.output_format =
                  IF ATTR_PREFERRED_FORMAT \in DOMAIN per_call
                  THEN per_call.preferred_format
                  ELSE Precedence(CONF_OUTPUT_FORMAT, per_call, stored)
    /\ (entity # <<>> /\ entry_state = "loaded" /\ reload_tasks = 0)
          => entity.read_options = entry_options

C2_Witness ==
    /\ SynthesisReturned
    /\ edits = 1
    /\ call.self.read_options = entry_options
    /\ entry_options[CONF_VOICE] = DEFAULT_VOICE
    /\ call.options = <<>>
    /\ call.language = <<"f", "r">>
    /\ outcome.resolved.voice = "fr-FR-HenriNeural"
    /\ outcome.resolved.rate = Str_minus5pct
====
